---- MODULE Spec2Model ----
(***************************************************************************)
(* Model of the subtitle translation pipeline (lib/translation.js):        *)
(* parseSubtitleContent, convertCuesToVTT and translateSubtitle with its   *)
(* process-wide translationCache and its concurrently issued batch calls   *)
(* to the external language model, and of the format converters            *)
(* convertSrtToVtt and convertVttToSrt (lib/subtitles.js).                 *)
(*                                                                         *)
(* Spec is the behaviour of interleaved translateSubtitle calls; Live is   *)
(* Spec with every pending batch call eventually settling.                 *)
(* Functions applies one function to one input: the reconciliation of a    *)
(* model response, the partition into batches, the translation of one      *)
(* document, a cache lookup some time after the write, the cache keys of   *)
(* two calls, the two round trips, format detection, encoding, the order   *)
(* in which batch calls complete, and retryWithExponentialBackoff.         *)
(* Service is the behaviour of the subtitle service (lib/subtitles.js:     *)
(* findSubtitles, saveTranslatedSubtitle, handleTranslationRequest over    *)
(* subtitleCache) and of the subtitles handler (addon.js).                 *)
(*                                                                         *)
(* A JavaScript string is a non-empty sequence of lines (the result of     *)
(* split('\n')); the empty string is the single empty line.  A line is a   *)
(* record whose kind says what the regular expressions of the parser see   *)
(* in it.                                                                  *)
(***************************************************************************)
EXTENDS Integers, Sequences, FiniteSets, TLC

\* ---- bounds -------------------------------------------------------------
NumCalls == 2          \* translateSubtitle calls in one behaviour
MaxCues  == 12         \* cues of the longest input document
MaxBatch == 3          \* cues of a batch whose response is reconciled on its own
MaxResponse == 3       \* lines of a model response reconciled on its own
MaxPartition == 21     \* cues of the longest cue sequence partitioned on its own
MaxRoundTrip == 2      \* cues of the longest cue sequence encoded and decoded again
MaxDetect == 3         \* lines of the longest document whose format is detected
MaxEncode == 3         \* cues of the longest document encoded on its own
MaxRetries == 3        \* the largest maxRetries retryWithExponentialBackoff is called with
MaxOps == 3            \* operations of the subtitle service in one behaviour

\* ---- program constants --------------------------------------------------
batchSize == 10
stdTTL == 86400        \* seconds, new NodeCache({ stdTTL: 86400 })

\* ---- lines --------------------------------------------------------------
Ln(k, a, b, t) == [k |-> k, a |-> a, b |-> b, t |-> t]

Banner        == Ln("banner", 0, 0, "WEBVTT")     \* the line WEBVTT
Blank         == Ln("blank", 0, 0, "")            \* trims to the empty string
Index(n)      == Ln("digits", n, 0, "")           \* matches /^\d+$/
Timing(s, e)  == Ln("timing", s, e, ".")          \* HH:MM:SS.mmm --> HH:MM:SS.mmm
SrtTiming(s, e) == Ln("timing", s, e, ",")        \* HH:MM:SS,mmm --> HH:MM:SS,mmm
Text(lang, n) == Ln("text", n, 0, lang)           \* any other line
Note          == Ln("note", 0, 0, "NOTE")         \* starts with NOTE
Sep           == Ln("sep", 0, 0, "---")           \* exactly ---

EmptyString == <<Blank>>

\* String.prototype.trim on a multi-line string: leading and trailing blank
\* lines go; what is left of an all-blank string is the empty string.
RECURSIVE dropBlankHead(_)
dropBlankHead(s) ==
  IF s = <<>> THEN <<>>
  ELSE IF Head(s) = Blank THEN dropBlankHead(Tail(s)) ELSE s

RECURSIVE dropBlankTail(_)
dropBlankTail(s) ==
  IF s = <<>> THEN <<>>
  ELSE IF s[Len(s)] = Blank THEN dropBlankTail(SubSeq(s, 1, Len(s) - 1)) ELSE s

trim(s) ==
  LET t == dropBlankTail(dropBlankHead(s))
  IN IF t = <<>> THEN EmptyString ELSE t

\* ---- cues ---------------------------------------------------------------
\* a timestamp as a cue holds it: the matched string of the vtt branch (syn
\* "."), or the number of milliseconds parseSRT produces (syn "ms")
Ts(v, syn) == [v |-> v, syn |-> syn]

Cue(s, e, txt) == [start |-> s, end |-> e, text |-> txt]

\* currentCue.text += (currentCue.text ? '\n' : '') + line
addLine(cue, line) ==
  [cue EXCEPT !.text = IF cue.text = EmptyString THEN <<line>>
                       ELSE Append(cue.text, line)]

\* while (i < lines.length && lines[i].trim()) i++  -- the index of the first
\* blank line at or after i, or lines.length + 1
RECURSIVE skipNote(_, _)
skipNote(lines, i) ==
  IF i <= Len(lines) /\ lines[i] # Blank THEN skipNote(lines, i + 1) ELSE i

\* the timing regular expression of the vtt branch accepts only the dot form
timingMatch(line) == line.k = "timing" /\ line.t = "."

\* the for loop of the vtt branch; cur is <<>> (null) or <<currentCue>>
RECURSIVE parseLoop(_, _, _, _)
parseLoop(lines, i, cues, cur) ==
  IF i > Len(lines)
  THEN cues \o cur
  ELSE LET line == lines[i] IN
    IF line = Blank \/ line = Banner
    THEN parseLoop(lines, i + 1, cues, cur)
    ELSE IF line.k = "note"
    THEN parseLoop(lines, skipNote(lines, i) + 1, cues, cur)
    ELSE IF timingMatch(line)
    THEN parseLoop(lines, i + 1, cues \o cur, <<Cue(Ts(line.a, "."), Ts(line.b, "."), EmptyString)>>)
    ELSE IF cur # <<>> /\ line.k # "digits"
    THEN parseLoop(lines, i + 1, cues, <<addLine(cur[1], line)>>)
    ELSE parseLoop(lines, i + 1, cues, cur)

\* parse of the subtitle package: blocks of an optional index line, a comma
\* timing line and the text lines up to the next blank line; a timing line
\* without text, or input without a timing line, gives no cue
RECURSIVE parseSRTLoop(_, _, _, _)
parseSRTLoop(lines, i, cues, cur) ==
  LET done == IF cur # <<>> /\ cur[1].text # EmptyString THEN cues \o cur ELSE cues
  IN IF i > Len(lines)
     THEN done
     ELSE LET line == lines[i] IN
       IF line = Blank
       THEN parseSRTLoop(lines, i + 1, done, <<>>)
       ELSE IF cur = <<>> /\ line.k = "timing" /\ line.t = ","
       THEN parseSRTLoop(lines, i + 1, cues,
                         <<Cue(Ts(line.a, "ms"), Ts(line.b, "ms"), EmptyString)>>)
       ELSE IF cur # <<>>
       THEN parseSRTLoop(lines, i + 1, cues, <<addLine(cur[1], line)>>)
       ELSE parseSRTLoop(lines, i + 1, cues, cur)

parseSRT(content) == parseSRTLoop(content, 1, <<>>, <<>>)

parseSubtitleContent(content, format) ==
  IF format = "srt" THEN parseSRT(content)
  ELSE parseLoop(content, 1, <<>>, <<>>)

\* `${cue.start} --> ${cue.end}`: the timestamps as the cue holds them
timingLine(cue) == Ln("timing", cue.start.v, cue.end.v, cue.start.syn)

\* mutant: the cues are numbered from 0
RECURSIVE cueBlocksFromZero(_, _)
cueBlocksFromZero(cues, index) ==
  IF index > Len(cues) THEN <<>>
  ELSE <<Index(index - 1), timingLine(cues[index])>> \o cues[index].text
       \o <<Blank>> \o cueBlocksFromZero(cues, index + 1)

RECURSIVE cueBlocks(_, _)
cueBlocks(cues, index) ==
  IF index > Len(cues) THEN <<>>
  ELSE <<Index(index), timingLine(cues[index])>> \o cues[index].text
       \o <<Blank>> \o cueBlocks(cues, index + 1)

\* mutant: the loop starts at the second cue
convertCuesToVTTSkipsFirst(cues) ==
  <<Banner, Blank>> \o cueBlocks(cues, 2) \o <<Blank>>

\* 'WEBVTT\n\n' then per cue index, timing, text and an empty line; the text
\* ends with a newline, so the last line of the string is empty
convertCuesToVTT(cues) ==
  <<Banner, Blank>> \o cueBlocks(cues, 1) \o <<Blank>>

\* ---- reconciliation of one model response --------------------------------
\* translatedText.split('\n---\n'): a line --- separates two segments when a
\* newline precedes and follows it and the newline before it is not the one
\* that ended the previous separator
RECURSIVE splitLoop(_, _, _, _, _)
splitLoop(lines, i, cur, segs, prevSep) ==
  IF i > Len(lines) THEN Append(segs, cur)
  ELSE IF lines[i] = Sep /\ i > 1 /\ i < Len(lines) /\ ~prevSep
  THEN splitLoop(lines, i + 1, <<>>, Append(segs, cur), TRUE)
  ELSE splitLoop(lines, i + 1, Append(cur, lines[i]), segs, FALSE)

splitOnSeparator(translatedText) == splitLoop(translatedText, 1, <<>>, <<>>, FALSE)

\* translatedText.split('\n').filter(line => line.trim())
RECURSIVE simpleSplit(_)
simpleSplit(lines) ==
  IF lines = <<>> THEN <<>>
  ELSE IF Head(lines) = Blank THEN simpleSplit(Tail(lines))
  ELSE <<(<<Head(lines)>>)>> \o simpleSplit(Tail(lines))

\* mutant: a mismatch returns the separator split as it is
reconcileNoFallback(translatedText, textsToTranslate) ==
  LET translations == splitOnSeparator(translatedText)
      n == Len(textsToTranslate)
  IN IF Len(translations) # n /\ Len(simpleSplit(translatedText)) >= n
     THEN SubSeq(simpleSplit(translatedText), 1, n)
     ELSE translations

\* mutant: the newline split keeps its blank lines
reconcileKeepsBlankLines(translatedText, textsToTranslate) ==
  LET translations == splitOnSeparator(translatedText)
      n == Len(textsToTranslate)
      lines == [j \in 1..Len(translatedText) |-> <<translatedText[j]>>]
  IN IF Len(translations) # n
     THEN IF Len(lines) >= n THEN SubSeq(lines, 1, n) ELSE textsToTranslate
     ELSE translations

\* lines 224-240: the texts one batch callback resolves with
reconcile(translatedText, textsToTranslate) ==
  LET translations == splitOnSeparator(translatedText)
      n == Len(textsToTranslate)
  IN IF Len(translations) # n
     THEN IF Len(simpleSplit(translatedText)) >= n
          THEN SubSeq(simpleSplit(translatedText), 1, n)
          ELSE textsToTranslate
     ELSE translations

\* ---- partition and reassembly -------------------------------------------
Min(a, b) == IF a < b THEN a ELSE b

numBatches(cues) == (Len(cues) + batchSize - 1) \div batchSize

\* mutant: a batch starts at the last cue of the batch before it
batchOfOverlapping(cues, b) ==
  SubSeq(cues, IF b = 1 THEN 1 ELSE (b - 1) * batchSize, Min(b * batchSize, Len(cues)))

\* cues.slice(i, i + batchSize) for the b-th batch, b counted from 1
batchOf(cues, b) ==
  SubSeq(cues, (b - 1) * batchSize + 1, Min(b * batchSize, Len(cues)))

textsToTranslate(batch) == [j \in 1..Len(batch) |-> batch[j].text]

\* lines 175-178: the array the for loop fills
batches(cues) == [b \in 1..numBatches(cues) |-> batchOf(cues, b)]

\* lines 183-191: batches.map(...) builds one request per batch from its texts
requests(cues) == [b \in 1..numBatches(cues) |-> textsToTranslate(batches(cues)[b])]

RECURSIVE flatten(_, _)
flatten(translatedBatches, b) ==
  IF b > Len(translatedBatches) THEN <<>>
  ELSE translatedBatches[b] \o flatten(translatedBatches, b + 1)

\* lines 243-252: the running index writes the texts of all batches in batch
\* order over the cues, text only, and stops at the last cue
applyTranslations(cues, translatedBatches) ==
  LET all == flatten(translatedBatches, 1)
  IN [k \in 1..Len(cues) |->
        IF k <= Len(all) THEN [cues[k] EXCEPT !.text = trim(all[k])] ELSE cues[k]]

\* content.trim().startsWith('WEBVTT') ? 'vtt' : 'srt'
formatOf(content) == IF trim(content)[1].k = "banner" THEN "vtt" ELSE "srt"

\* ---- inputs --------------------------------------------------------------
SourceLang  == "en"

\* "WEBVTT\n\n1\n00:00:01.000 --> 00:00:05.000\nHello"
ExampleDoc == <<Banner, Blank, Index(1), Timing(1, 5), Text(SourceLang, 1)>>

\* the second cue of a long document has two lines of text
cueText(k) ==
  IF k = 2 THEN <<Text(SourceLang, 2), Text(SourceLang, 102)>>
  ELSE <<Text(SourceLang, k)>>

RECURSIVE docBlocks(_, _)
docBlocks(k, n) ==
  IF k > n THEN <<>>
  ELSE <<Index(k), Timing(k, k + 1)>> \o cueText(k) \o <<Blank>> \o docBlocks(k + 1, n)

LongDoc(n) == <<Banner, Blank>> \o docBlocks(1, n)

EmptyContent  == EmptyString                       \* ""
NoCueDoc      == <<Banner, Blank, Note, Text(SourceLang, 1), Blank, Index(7)>>

Contents == <<ExampleDoc, LongDoc(MaxCues), NoCueDoc>>

\* the (content, targetLang) pairs translateSubtitle is called with
Inputs == {<<Contents[i], "el">> : i \in DOMAIN Contents}

\* createHash('md5').update(content).digest('hex'): the digest of a content is
\* its number, so the hash is collision free on the contents of the model
md5(content) == CHOOSE i \in DOMAIN Contents : Contents[i] = content

\* a language code as the string it is: its parts and the underscores
\* between them
pieces(lang) ==
  CASE lang = "pt_BR" -> <<"pt", "_", "BR">>
    [] lang = "BR_el" -> <<"BR", "_", "el">>
    [] OTHER -> <<lang>>

\* `${contentHash}_${sourceLang}_${targetLang}`: one string, the digest (hex
\* digits only) and the two codes joined by underscores
cacheKeyOf(content, sourceLang, targetLang) ==
  <<md5(content), "_">> \o pieces(sourceLang) \o <<"_">> \o pieces(targetLang)

\* lines 162-163 for each input: the format and the cues of the content
decode(content) == parseSubtitleContent(content, formatOf(content))

Decoded == [in \in Inputs |-> decode(in[1])]

Calls == 1..NumCalls

\* ---- what the external model may answer to one batch request ---------------
translated(line, lang) == IF line.k = "text" THEN Text(lang, line.a) ELSE line

translatedText(text, lang) == [j \in 1..Len(text) |-> translated(text[j], lang)]

RECURSIVE joinSeparated(_, _, _)
joinSeparated(texts, j, lang) ==
  IF j > Len(texts) THEN <<>>
  ELSE (IF j > 1 THEN <<Sep>> ELSE <<>>) \o translatedText(texts[j], lang)
       \o joinSeparated(texts, j + 1, lang)

Answer(kind, text) == [kind |-> kind, text |-> text]

\* kind "text": a well-formed envelope holding the text; "error": axios.post
\* rejects; "invalid": an envelope without candidates[0].content.
\* To a single cue: its translation inside blank lines, or an invalid envelope.
\* To a full batch: one segment per cue joined by the separator, a rejection,
\* or a single line. To a batch that is not full: the joined segments, or one
\* line per cue and one more, without separators.
ModelAnswers(texts, lang) ==
  LET n == Len(texts)
      aligned == joinSeparated(texts, 1, lang)
  IN IF n = 1
     THEN { Answer("text", <<Blank>> \o aligned \o <<Blank>>),
            Answer("invalid", EmptyString) }
     ELSE IF n = batchSize
     THEN { Answer("text", aligned),
            Answer("error", EmptyString),
            Answer("text", <<Text(lang, 300)>>) }
     ELSE { Answer("text", aligned),
            Answer("text", [j \in 1..(n + 1) |-> Text(lang, 200 + j)]) }

NoAnswer == Answer("none", EmptyString)

\* ---- state ---------------------------------------------------------------
VARIABLES
  translationCache,  \* key -> cached document, <<>> where there is no entry
  pc,                \* per call: "idle", "waiting" (in Promise.all), "done"
  args,              \* per call: content, sourceLang, targetLang
  cues,              \* per call: the cues parseSubtitleContent returned
  answers,           \* per call: the answer received for each batch request
  translatedBatches, \* per call: the texts each settled batch callback resolved with
  result,            \* per call: how the returned promise settled
  stats,             \* per call: counts of cache reads, cache writes, decodes, model requests
  precededBy,        \* per call: the calls that had returned when it was invoked
  applied,           \* the function applied on its own to input, "none" before
  input,             \* the arguments of a function applied on its own
  output,            \* what the function applied on its own returned
  subtitleCache,     \* lib/subtitles.js: key -> value, the keys that have an entry
  last,              \* the operation of the subtitle service that completed last
  ops                \* the number of operations of the subtitle service so far

callVars == <<translationCache, pc, args, cues, answers, translatedBatches, result, stats,
              precededBy>>

functionVars == <<applied, input, output>>

serviceVars == <<subtitleCache, last, ops>>

vars == <<callVars, functionVars, serviceVars>>

Keys == {cacheKeyOf(in[1], SourceLang, in[2]) : in \in Inputs}

NoDoc == <<>>

Args(content, sourceLang, targetLang) ==
  [content |-> content, sourceLang |-> sourceLang, targetLang |-> targetLang]

Result(status, via, value) == [status |-> status, via |-> via, value |-> value]

Stats(r, w, d, m) == [cacheReads |-> r, cacheWrites |-> w, decodes |-> d, modelCalls |-> m]

keyOf(c) == cacheKeyOf(args[c].content, args[c].sourceLang, args[c].targetLang)

NoInput == <<>>

\* no call of translateSubtitle has been made
NoCalls ==
  /\ translationCache = [k \in Keys |-> NoDoc]
  /\ pc = [c \in Calls |-> "idle"]
  /\ args = [c \in Calls |-> Args(EmptyContent, SourceLang, SourceLang)]
  /\ cues = [c \in Calls |-> <<>>]
  /\ answers = [c \in Calls |-> <<>>]
  /\ translatedBatches = [c \in Calls |-> <<>>]
  /\ result = [c \in Calls |-> Result("pending", "none", NoDoc)]
  /\ stats = [c \in Calls |-> Stats(0, 0, 0, 0)]
  /\ precededBy = [c \in Calls |-> {}]

\* no function is applied on its own
NoFunction == applied = "none" /\ input = NoInput /\ output = NoInput

\* no operation of the subtitle service has been called
NoService == subtitleCache = <<>> /\ last = NoInput /\ ops = 0

Init == NoCalls /\ NoFunction /\ NoService

\* ---- translateSubtitle up to its first await ----------------------------
\* call c is the c-th invocation of translateSubtitle
invoked(c) ==
  /\ pc[c] = "idle"
  /\ \A d \in 1..(c - 1) : pc[d] # "idle"
  /\ precededBy' = [precededBy EXCEPT ![c] = {d \in Calls : pc[d] = "done"}]

\* line 154 throws (the cache is unavailable): the lookup is outside the try
\* block, so the promise rejects
LookupThrows(c, content, targetLang) ==
  /\ invoked(c)
  /\ pc' = [pc EXCEPT ![c] = "done"]
  /\ args' = [args EXCEPT ![c] = Args(content, SourceLang, targetLang)]
  /\ result' = [result EXCEPT ![c] = Result("rejected", "lookup", NoDoc)]
  /\ stats' = [stats EXCEPT ![c].cacheReads = @ + 1]
  /\ UNCHANGED <<translationCache, cues, answers, translatedBatches>>

\* mutant: a hit stores the document again
CacheHitRefreshes(c, content, targetLang) ==
  LET cacheKey == cacheKeyOf(content, SourceLang, targetLang)
      cachedTranslation == translationCache[cacheKey]
  IN /\ invoked(c)
     /\ cachedTranslation # NoDoc
     /\ pc' = [pc EXCEPT ![c] = "done"]
     /\ args' = [args EXCEPT ![c] = Args(content, SourceLang, targetLang)]
     /\ result' = [result EXCEPT ![c] = Result("resolved", "cache", cachedTranslation)]
     /\ stats' = [stats EXCEPT ![c].cacheReads = @ + 1, ![c].cacheWrites = @ + 1]
     /\ UNCHANGED <<translationCache, cues, answers, translatedBatches>>

\* lines 154-158: the cache holds a document for the key
CacheHit(c, content, targetLang) ==
  LET cacheKey == cacheKeyOf(content, SourceLang, targetLang)
      cachedTranslation == translationCache[cacheKey]
  IN /\ invoked(c)
     /\ cachedTranslation # NoDoc
     /\ pc' = [pc EXCEPT ![c] = "done"]
     /\ args' = [args EXCEPT ![c] = Args(content, SourceLang, targetLang)]
     /\ result' = [result EXCEPT ![c] = Result("resolved", "cache", cachedTranslation)]
     /\ stats' = [stats EXCEPT ![c].cacheReads = @ + 1]
     /\ UNCHANGED <<translationCache, cues, answers, translatedBatches>>

\* mutant: the content is cached before it is returned
NoCuesCaches(c, content, targetLang) ==
  LET cacheKey == cacheKeyOf(content, SourceLang, targetLang)
      parsed == Decoded[<<content, targetLang>>]
  IN /\ invoked(c)
     /\ translationCache[cacheKey] = NoDoc
     /\ Len(parsed) = 0
     /\ pc' = [pc EXCEPT ![c] = "done"]
     /\ args' = [args EXCEPT ![c] = Args(content, SourceLang, targetLang)]
     /\ result' = [result EXCEPT ![c] = Result("resolved", "nocues", content)]
     /\ stats' = [stats EXCEPT ![c].cacheReads = @ + 1, ![c].decodes = @ + 1,
                               ![c].cacheWrites = @ + 1]
     /\ translationCache' = [translationCache EXCEPT ![cacheKey] = content]
     /\ UNCHANGED <<cues, answers, translatedBatches>>

\* mutant: the empty cue list is encoded and returned
NoCuesEncodes(c, content, targetLang) ==
  LET cacheKey == cacheKeyOf(content, SourceLang, targetLang)
      parsed == Decoded[<<content, targetLang>>]
  IN /\ invoked(c)
     /\ translationCache[cacheKey] = NoDoc
     /\ Len(parsed) = 0
     /\ pc' = [pc EXCEPT ![c] = "done"]
     /\ args' = [args EXCEPT ![c] = Args(content, SourceLang, targetLang)]
     /\ result' = [result EXCEPT ![c] = Result("resolved", "nocues", convertCuesToVTT(parsed))]
     /\ stats' = [stats EXCEPT ![c].cacheReads = @ + 1, ![c].decodes = @ + 1]
     /\ UNCHANGED <<translationCache, cues, answers, translatedBatches>>

\* lines 160-168: a miss, and the decode finds no cue
NoCues(c, content, targetLang) ==
  LET cacheKey == cacheKeyOf(content, SourceLang, targetLang)
      parsed == Decoded[<<content, targetLang>>]
  IN /\ invoked(c)
     /\ translationCache[cacheKey] = NoDoc
     /\ Len(parsed) = 0
     /\ pc' = [pc EXCEPT ![c] = "done"]
     /\ args' = [args EXCEPT ![c] = Args(content, SourceLang, targetLang)]
     /\ result' = [result EXCEPT ![c] = Result("resolved", "nocues", content)]
     /\ stats' = [stats EXCEPT ![c].cacheReads = @ + 1, ![c].decodes = @ + 1]
     /\ UNCHANGED <<translationCache, cues, answers, translatedBatches>>

\* mutant: the cached document is not looked at
IssueBatchesIgnoresCache(c, content, targetLang) ==
  LET parsed == Decoded[<<content, targetLang>>]
  IN /\ invoked(c)
     /\ Len(parsed) > 0
     /\ pc' = [pc EXCEPT ![c] = "waiting"]
     /\ args' = [args EXCEPT ![c] = Args(content, SourceLang, targetLang)]
     /\ cues' = [cues EXCEPT ![c] = parsed]
     /\ answers' = [answers EXCEPT ![c] = [b \in 1..numBatches(parsed) |-> NoAnswer]]
     /\ translatedBatches' = [translatedBatches EXCEPT
                                ![c] = [b \in 1..numBatches(parsed) |-> <<>>]]
     /\ stats' = [stats EXCEPT ![c].cacheReads = @ + 1, ![c].decodes = @ + 1,
                               ![c].modelCalls = @ + numBatches(parsed)]
     /\ UNCHANGED <<translationCache, result>>

\* lines 160-213: a miss with cues; every batch callback runs to its
\* await axios.post, so all requests are issued before translateSubtitle
\* suspends in Promise.all
IssueBatches(c, content, targetLang) ==
  LET cacheKey == cacheKeyOf(content, SourceLang, targetLang)
      parsed == Decoded[<<content, targetLang>>]
  IN /\ invoked(c)
     /\ translationCache[cacheKey] = NoDoc
     /\ Len(parsed) > 0
     /\ pc' = [pc EXCEPT ![c] = "waiting"]
     /\ args' = [args EXCEPT ![c] = Args(content, SourceLang, targetLang)]
     /\ cues' = [cues EXCEPT ![c] = parsed]
     /\ answers' = [answers EXCEPT ![c] = [b \in 1..numBatches(parsed) |-> NoAnswer]]
     /\ translatedBatches' = [translatedBatches EXCEPT
                                ![c] = [b \in 1..numBatches(parsed) |-> <<>>]]
     /\ stats' = [stats EXCEPT ![c].cacheReads = @ + 1, ![c].decodes = @ + 1,
                               ![c].modelCalls = @ + numBatches(parsed)]
     /\ UNCHANGED <<translationCache, result>>

\* ---- the batch callbacks and the rest of translateSubtitle ------------------
pendingBatches(c) == {b \in 1..Len(answers[c]) : answers[c][b] = NoAnswer}

\* mutant: the catch block returns the cues encoded again
BatchFailsReencodes(c, b, answer) ==
  /\ pc[c] = "waiting"
  /\ b \in pendingBatches(c)
  /\ answer.kind \in {"error", "invalid"}
  /\ answers' = [answers EXCEPT ![c][b] = answer]
  /\ pc' = [pc EXCEPT ![c] = "done"]
  /\ result' = [result EXCEPT ![c] = Result("resolved", "fallback", convertCuesToVTT(cues[c]))]
  /\ UNCHANGED <<translationCache, args, cues, translatedBatches, stats, precededBy>>

\* mutant: the catch block caches the content it returns
BatchFailsCaches(c, b, answer) ==
  /\ pc[c] = "waiting"
  /\ b \in pendingBatches(c)
  /\ answer.kind \in {"error", "invalid"}
  /\ answers' = [answers EXCEPT ![c][b] = answer]
  /\ pc' = [pc EXCEPT ![c] = "done"]
  /\ result' = [result EXCEPT ![c] = Result("resolved", "fallback", args[c].content)]
  /\ stats' = [stats EXCEPT ![c].cacheWrites = @ + 1]
  /\ translationCache' = [translationCache EXCEPT ![keyOf(c)] = args[c].content]
  /\ UNCHANGED <<args, cues, translatedBatches, precededBy>>

\* lines 196-219 and 261-266: axios.post rejects, or the envelope is invalid
\* and the callback throws; Promise.all rejects and the catch block returns
\* the content
BatchFails(c, b, answer) ==
  /\ pc[c] = "waiting"
  /\ b \in pendingBatches(c)
  /\ answer.kind \in {"error", "invalid"}
  /\ answers' = [answers EXCEPT ![c][b] = answer]
  /\ pc' = [pc EXCEPT ![c] = "done"]
  /\ result' = [result EXCEPT ![c] = Result("resolved", "fallback", args[c].content)]
  /\ UNCHANGED <<translationCache, args, cues, translatedBatches, stats, precededBy>>

\* mutant: every callback that resolves stores the document as it stands
BatchSettlesStores(c, b, answer) ==
  /\ pc[c] = "waiting"
  /\ b \in pendingBatches(c)
  /\ pendingBatches(c) # {b}
  /\ answer.kind = "text"
  /\ answers' = [answers EXCEPT ![c][b] = answer]
  /\ translatedBatches' = [translatedBatches EXCEPT ![c][b] =
        reconcile(answer.text, textsToTranslate(batchOf(cues[c], b)))]
  /\ stats' = [stats EXCEPT ![c].cacheWrites = @ + 1]
  /\ translationCache' = [translationCache EXCEPT ![keyOf(c)] = convertCuesToVTT(cues[c])]
  /\ UNCHANGED <<pc, args, cues, result, precededBy>>

\* lines 221-240: a callback resolves while other batches are outstanding
BatchSettles(c, b, answer) ==
  /\ pc[c] = "waiting"
  /\ b \in pendingBatches(c)
  /\ pendingBatches(c) # {b}
  /\ answer.kind = "text"
  /\ answers' = [answers EXCEPT ![c][b] = answer]
  /\ translatedBatches' = [translatedBatches EXCEPT ![c][b] =
        reconcile(answer.text, textsToTranslate(batchOf(cues[c], b)))]
  /\ UNCHANGED <<translationCache, pc, args, cues, result, stats, precededBy>>

\* mutant: the encoded document is returned without being cached
LastBatchSettlesNoStore(c, b, answer, setThrows) ==
  LET collected == [translatedBatches[c] EXCEPT ![b] =
                      reconcile(answer.text, textsToTranslate(batchOf(cues[c], b)))]
      translatedCues == applyTranslations(cues[c], collected)
      translatedContent == convertCuesToVTT(translatedCues)
  IN /\ pc[c] = "waiting"
     /\ pendingBatches(c) = {b}
     /\ answer.kind = "text"
     /\ answers' = [answers EXCEPT ![c][b] = answer]
     /\ translatedBatches' = [translatedBatches EXCEPT ![c] = collected]
     /\ cues' = [cues EXCEPT ![c] = translatedCues]
     /\ pc' = [pc EXCEPT ![c] = "done"]
     /\ result' = [result EXCEPT ![c] =
                     Result("resolved", "translated", translatedContent)]
     /\ UNCHANGED <<translationCache, args, precededBy, stats>>

\* mutant: a document already cached for the key is not replaced
LastBatchSettlesKeepsFirst(c, b, answer, setThrows) ==
  LET collected == [translatedBatches[c] EXCEPT ![b] =
                      reconcile(answer.text, textsToTranslate(batchOf(cues[c], b)))]
      translatedCues == applyTranslations(cues[c], collected)
      translatedContent == convertCuesToVTT(translatedCues)
  IN /\ pc[c] = "waiting"
     /\ pendingBatches(c) = {b}
     /\ answer.kind = "text"
     /\ answers' = [answers EXCEPT ![c][b] = answer]
     /\ translatedBatches' = [translatedBatches EXCEPT ![c] = collected]
     /\ cues' = [cues EXCEPT ![c] = translatedCues]
     /\ pc' = [pc EXCEPT ![c] = "done"]
     /\ stats' = [stats EXCEPT ![c].cacheWrites = @ + 1]
     /\ IF setThrows
        THEN /\ result' = [result EXCEPT ![c] =
                             Result("resolved", "fallback", args[c].content)]
             /\ UNCHANGED translationCache
        ELSE /\ result' = [result EXCEPT ![c] =
                             Result("resolved", "translated", translatedContent)]
             /\ translationCache' =
                  IF translationCache[keyOf(c)] = NoDoc
                  THEN [translationCache EXCEPT ![keyOf(c)] = translatedContent]
                  ELSE translationCache
     /\ UNCHANGED <<args, precededBy>>

\* lines 221-260: the last callback resolves, Promise.all resolves, the
\* texts are applied, the document is encoded, cached and returned; when
\* translationCache.set throws, the catch block returns the content
LastBatchSettles(c, b, answer, setThrows) ==
  LET collected == [translatedBatches[c] EXCEPT ![b] =
                      reconcile(answer.text, textsToTranslate(batchOf(cues[c], b)))]
      translatedCues == applyTranslations(cues[c], collected)
      translatedContent == convertCuesToVTT(translatedCues)
  IN /\ pc[c] = "waiting"
     /\ pendingBatches(c) = {b}
     /\ answer.kind = "text"
     /\ answers' = [answers EXCEPT ![c][b] = answer]
     /\ translatedBatches' = [translatedBatches EXCEPT ![c] = collected]
     /\ cues' = [cues EXCEPT ![c] = translatedCues]
     /\ pc' = [pc EXCEPT ![c] = "done"]
     /\ stats' = [stats EXCEPT ![c].cacheWrites = @ + 1]
     /\ IF setThrows
        THEN /\ result' = [result EXCEPT ![c] =
                             Result("resolved", "fallback", args[c].content)]
             /\ UNCHANGED translationCache
        ELSE /\ result' = [result EXCEPT ![c] =
                             Result("resolved", "translated", translatedContent)]
             /\ translationCache' = [translationCache EXCEPT ![keyOf(c)] = translatedContent]
     /\ UNCHANGED <<args, precededBy>>

answersFor(c, b) ==
  ModelAnswers(textsToTranslate(batchOf(cues[c], b)), args[c].targetLang)

Next ==
  \/ \E c \in Calls, in \in Inputs :
       LookupThrows(c, in[1], in[2]) /\ UNCHANGED <<functionVars, serviceVars>>
  \/ \E c \in Calls, in \in Inputs :
       CacheHit(c, in[1], in[2]) /\ UNCHANGED <<functionVars, serviceVars>>
  \/ \E c \in Calls, in \in Inputs :
       NoCues(c, in[1], in[2]) /\ UNCHANGED <<functionVars, serviceVars>>
  \/ \E c \in Calls, in \in Inputs :
       IssueBatches(c, in[1], in[2]) /\ UNCHANGED <<functionVars, serviceVars>>
  \/ \E c \in Calls : \E b \in pendingBatches(c) : \E a \in answersFor(c, b) :
       BatchFails(c, b, a) /\ UNCHANGED <<functionVars, serviceVars>>
  \/ \E c \in Calls : \E b \in pendingBatches(c) : \E a \in answersFor(c, b) :
       BatchSettles(c, b, a) /\ UNCHANGED <<functionVars, serviceVars>>
  \/ \E c \in Calls : \E b \in pendingBatches(c) : \E a \in answersFor(c, b) :
       \E setThrows \in BOOLEAN :
         LastBatchSettles(c, b, a, setThrows) /\ UNCHANGED <<functionVars, serviceVars>>

Spec == Init /\ [][Next]_vars

\* the model answers or fails a request of call c that is in flight, and the
\* callback of that request runs
settle(c) ==
  \E b \in pendingBatches(c) : \E a \in answersFor(c, b) :
    /\ \/ BatchFails(c, b, a)
       \/ BatchSettles(c, b, a)
       \/ \E setThrows \in BOOLEAN : LastBatchSettles(c, b, a, setThrows)
    /\ UNCHANGED <<functionVars, serviceVars>>

\* the calls of Spec when every request to the model eventually gets its
\* answer or its failure: no call waits in Promise.all with an action of
\* settle enabled for ever
Live == Spec /\ \A c \in Calls : WF_vars(settle(c))

\* ---- properties -----------------------------------------------------------
returned(c) == pc[c] = "done"

\* the cues of the content of call c as decoded, before any text is replaced
sourceCues(c) == Decoded[<<args[c].content, args[c].targetLang>>]

failedBatches(c) == {b \in 1..Len(answers[c]) : answers[c][b].kind \in {"error", "invalid"}}

allAnswered(c) ==
  Len(answers[c]) > 0 /\ \A b \in 1..Len(answers[c]) : answers[c][b].kind = "text"

\* the call ran to the cache write
translatedDocument(c) == returned(c) /\ result[c].via = "translated"

\* C1: translateSubtitle never rejects, whatever the content and whatever the
\* cache operations and the model calls do.
C1_NeverRejects == \A c \in Calls : result[c].status # "rejected"

\* C2: when a step after the cache lookup throws (a batch call rejects, the
\* envelope is invalid, the cache write throws), the call returns exactly the
\* content it was given.
C2_FailureReturnsContent ==
  \A c \in Calls :
    returned(c) /\ (failedBatches(c) # {} \/ result[c].via = "fallback")
      => result[c].status = "resolved" /\ result[c].value = args[c].content

\* the one-cue example with the model call throwing comes back unchanged
C2_Witness ==
  \E c \in Calls :
    /\ returned(c) /\ args[c].content = ExampleDoc /\ failedBatches(c) = {1}
    /\ result[c].value = ExampleDoc
    /\ result[c].value # convertCuesToVTT(sourceCues(c))

\* the texts the document carries in the positions of batch b
textsInBatch(c, b) == textsToTranslate(batchOf(cues[c], b))

sourceTexts(c, b) == textsToTranslate(batchOf(sourceCues(c), b))

\* C3 as stated: when the call of batch i fails hard and the other batches
\* are answered, a translated document is returned in which batch i keeps its
\* original texts.
C3_BatchLocalOnHardFailure ==
  \A c \in Calls :
    returned(c) /\ Len(answers[c]) > 1 /\ failedBatches(c) # {}
      /\ (\A b \in 1..Len(answers[c]) : answers[c][b] # NoAnswer)
      => /\ result[c].value # args[c].content
         /\ \A b \in failedBatches(c) : textsInBatch(c, b) = sourceTexts(c, b)

\* C3 amended: when the call of any batch fails hard, the whole call returns
\* the content it was given, no cue of any batch is replaced and nothing is
\* written to the cache, whatever the other batches were answered.
C3_HardFailureAbortsDocument ==
  \A c \in Calls :
    returned(c) /\ failedBatches(c) # {}
      => /\ result[c].status = "resolved"
         /\ result[c].value = args[c].content
         /\ cues[c] = sourceCues(c)
         /\ stats[c].cacheWrites = 0
         /\ translationCache[keyOf(c)] # NoDoc
              => \E d \in Calls \ {c} : keyOf(d) = keyOf(c) /\ translatedDocument(d)

\* one batch of a two-batch document answered, the other failed
C3_Witness ==
  \E c \in Calls :
    /\ returned(c) /\ Len(answers[c]) = 2
    /\ answers[c][1].kind = "error" /\ answers[c][2].kind = "text"
    /\ result[c].value = args[c].content

\* an answer that cannot be aligned with a batch of n cues
unaligned(answer, n) ==
  /\ answer.kind = "text"
  /\ Len(splitOnSeparator(answer.text)) # n
  /\ Len(simpleSplit(answer.text)) < n

mismatched(c, b) == unaligned(answers[c][b], Len(sourceTexts(c, b)))

\* the texts an answer returned for a batch of n cues
returnedTexts(answer, n) ==
  LET segments == splitOnSeparator(answer.text)
  IN IF Len(segments) = n THEN segments ELSE simpleSplit(answer.text)

\* C4: a batch whose answer cannot be aligned keeps its original texts, every
\* cue of every other batch carries the text returned for it, and the
\* document is still returned as a translated document.
C4_MismatchIsBatchLocal ==
  \A c \in Calls :
    returned(c) /\ allAnswered(c) /\ result[c].via # "fallback"
      => /\ translatedDocument(c)
         /\ result[c].value = convertCuesToVTT(cues[c])
         /\ LET source == sourceCues(c)
            IN \A b \in 1..Len(answers[c]) :
                 LET kept == textsToTranslate(batchOf(source, b))
                     carried == textsToTranslate(batchOf(cues[c], b))
                     returnedForBatch == returnedTexts(answers[c][b], Len(kept))
                 IN IF unaligned(answers[c][b], Len(kept))
                    THEN carried = kept
                    ELSE \A j \in 1..Len(kept) : carried[j] = trim(returnedForBatch[j])

\* the first batch mismatched, the second was translated
C4_Witness ==
  \E c \in Calls :
    /\ translatedDocument(c) /\ Len(answers[c]) = 2
    /\ mismatched(c, 1) /\ ~mismatched(c, 2)
    /\ textsInBatch(c, 1) = sourceTexts(c, 1)
    /\ textsInBatch(c, 2) # sourceTexts(c, 2)

\* the timing lines of a document, in order
isTimingLine(line) == line.k = "timing"

timingLines(doc) == SelectSeq(doc, isTimingLine)

\* C5: a translated document has the cues of the decoded input, in order,
\* each with the start and end of the input cue; only the text may differ.
C5_CuesAndTimingPreserved ==
  \A c \in Calls :
    translatedDocument(c)
      => LET source == sourceCues(c)
             carried == cues[c]
         IN /\ Len(carried) = Len(source)
            /\ \A k \in 1..Len(carried) :
                 /\ carried[k].start = source[k].start
                 /\ carried[k].end = source[k].end
            /\ timingLines(result[c].value)
                 = [k \in 1..Len(source) |-> timingLine(source[k])]

\* a two-batch document translated from answers of differing length
C5_Witness ==
  \E c \in Calls :
    /\ translatedDocument(c) /\ Len(sourceCues(c)) > batchSize
    /\ \E b \in 1..Len(answers[c]) :
         Len(simpleSplit(answers[c][b].text)) # Len(sourceTexts(c, b))
    /\ \E k \in 1..Len(cues[c]) : cues[c][k].text # sourceCues(c)[k].text


\* C6: on a cache hit the call returns the cached document unchanged and
\* performs no decode, no model call and no cache write.
C6_HitReturnsCachedOnly ==
  [][\A c \in Calls :
       LET key == cacheKeyOf(args'[c].content, args'[c].sourceLang, args'[c].targetLang)
       IN (pc[c] = "idle" /\ pc'[c] # "idle" /\ result'[c].status # "rejected"
             /\ translationCache[key] # NoDoc)
            => /\ pc'[c] = "done"
               /\ result'[c].status = "resolved"
               /\ result'[c].value = translationCache[key]
               /\ stats'[c].decodes = 0
               /\ stats'[c].modelCalls = 0
               /\ stats'[c].cacheWrites = 0
               /\ translationCache' = translationCache
               /\ cues'[c] = <<>> /\ answers'[c] = <<>>]_vars

\* a call served with the document another call translated and stored
C6_Witness ==
  \E c \in Calls, d \in Calls :
    /\ c # d /\ translatedDocument(d) /\ returned(c)
    /\ result[c].via = "cache"
    /\ result[c].value = result[d].value
    /\ result[c].value # args[c].content
    /\ stats[c] = Stats(1, 0, 0, 0)

successive(c1, c2) ==
  c1 \in precededBy[c2] /\ pc[c2] # "idle" /\ args[c1] = args[c2]

\* C7 as stated: across two successive calls with identical arguments the
\* model is invoked at most once.
C7_AtMostOneModelCall ==
  \A c1 \in Calls, c2 \in Calls :
    successive(c1, c2) => stats[c1].modelCalls + stats[c2].modelCalls <= 1

\* C7 amended: when the first of two successive calls with identical
\* arguments returned a translated document, the second invokes the model
\* zero times, so the model was invoked once per batch, by the first call.
C7_SecondCallInvokesNoModel ==
  \A c1 \in Calls, c2 \in Calls :
    successive(c1, c2) /\ translatedDocument(c1)
      => /\ returned(c2)
         /\ stats[c2].modelCalls = 0
         /\ stats[c2].decodes = 0
         /\ stats[c1].modelCalls = numBatches(sourceCues(c1))
         /\ result[c2].status = "resolved"
              => \E d \in Calls : /\ translatedDocument(d) /\ keyOf(d) = keyOf(c2)
                                  /\ result[c2].value = result[d].value

\* a two-batch document translated by the first call, served to the second
C7_Witness ==
  \E c1 \in Calls, c2 \in Calls :
    /\ successive(c1, c2) /\ translatedDocument(c1)
    /\ stats[c1].modelCalls = 2 /\ stats[c2].modelCalls = 0
    /\ result[c2].status = "resolved" /\ result[c2].value = result[c1].value

sameKey(c1, c2) ==
  c1 # c2 /\ pc[c1] # "idle" /\ pc[c2] # "idle" /\ keyOf(c1) = keyOf(c2)

\* C8 as stated: for one key at most one call, overlapping calls included,
\* computes the translation.
C8_OneComputationPerKey ==
  \A c1 \in Calls, c2 \in Calls :
    sameKey(c1, c2) => ~(translatedDocument(c1) /\ translatedDocument(c2))

\* C8 amended: two calls for one key both compute and store the translation
\* only when they overlap in time; a call invoked after the other returned
\* its translated document does not compute.
C8_RecomputationOnlyWhenOverlapping ==
  \A c1 \in Calls, c2 \in Calls :
    sameKey(c1, c2) /\ translatedDocument(c1) /\ stats[c2].modelCalls > 0
      => c1 \notin precededBy[c2]

\* two overlapping calls for one key, each of which computed and stored
C8_Witness ==
  \E c1 \in Calls, c2 \in Calls :
    /\ sameKey(c1, c2) /\ translatedDocument(c1) /\ translatedDocument(c2)
    /\ stats[c1].cacheWrites = 1 /\ stats[c2].cacheWrites = 1
    /\ c1 \notin precededBy[c2] /\ c2 \notin precededBy[c1]

\* C9: every cached value is the encoding of one complete translation pass
\* with as many cues as the decoded content of its key, and no call that
\* ended in the zero-cue fallback or in the failure fallback stored anything.
C9_CacheHoldsCompleteTranslations ==
  /\ \A key \in Keys :
       translationCache[key] # NoDoc
         => \E c \in Calls :
              /\ pc[c] # "idle" /\ keyOf(c) = key
              /\ translatedDocument(c) /\ allAnswered(c)
              /\ translationCache[key] = result[c].value
              /\ translationCache[key] = convertCuesToVTT(cues[c])
              /\ Len(timingLines(translationCache[key])) = Len(sourceCues(c))
              /\ Len(sourceCues(c)) > 0
  /\ \A c \in Calls :
       returned(c) /\ (result[c].via = "nocues" \/ failedBatches(c) # {})
         => stats[c].cacheWrites = 0

\* an entry stored by a call that collected the answers of two batches
C9_Witness ==
  \E c \in Calls :
    /\ translatedDocument(c) /\ Len(answers[c]) = 2 /\ allAnswered(c)
    /\ translationCache[keyOf(c)] = convertCuesToVTT(cues[c])
    /\ Len(timingLines(translationCache[keyOf(c)])) = MaxCues

\* C10: when the decode yields no cue the call returns the content
\* unchanged, issues no model call and leaves the cache as it is.
C10_ZeroCuesReturnsContent ==
  [][\A c \in Calls :
       (pc[c] = "idle" /\ pc'[c] # "idle" /\ result'[c].status # "rejected"
          /\ Len(Decoded[<<args'[c].content, args'[c].targetLang>>]) = 0)
         => /\ pc'[c] = "done"
            /\ result'[c].status = "resolved"
            /\ result'[c].value = args'[c].content
            /\ stats'[c].modelCalls = 0
            /\ stats'[c].cacheWrites = 0
            /\ answers'[c] = <<>>
            /\ translationCache' = translationCache]_vars

\* a banner, a note block and an index line, but no timing line
C10_Witness ==
  \E c \in Calls :
    /\ returned(c) /\ args[c].content = NoCueDoc /\ Len(sourceCues(c)) = 0
    /\ result[c].status = "resolved" /\ result[c].value = NoCueDoc
    /\ stats[c] = Stats(1, 0, 1, 0)
    /\ translationCache[keyOf(c)] = NoDoc

\* ---- functions applied on their own ---------------------------------------
\* the lines a model response is made of
ResponseLines == {Text("el", 1), Text("el", 2), Sep, Blank}

RECURSIVE Strings(_, _)
\* the strings of at most n lines over a set of lines
Strings(lines, n) ==
  IF n = 0 THEN {}
  ELSE LET shorter == Strings(lines, n - 1)
       IN {<<l>> : l \in lines} \cup {Append(t, l) : t \in shorter, l \in lines}

\* the texts of a batch of n cues, the second one of two lines
batchTexts(n) == [j \in 1..n |-> cueText(j)]

ReconcileInputs ==
  {[translatedText |-> t, textsToTranslate |-> batchTexts(n)] :
     t \in Strings(ResponseLines, MaxResponse), n \in 1..MaxBatch}

\* lines 224-240 for one response
ReconcileApplied ==
  /\ applied = "none"
  /\ input \in ReconcileInputs
  /\ applied' = "reconcile"
  /\ output' = reconcile(input.translatedText, input.textsToTranslate)
  /\ UNCHANGED <<input, callVars, serviceVars>>

\* n cues in order, every one with its own timestamps and text
cueSequence(n) == [k \in 1..n |-> Cue(Ts(k, "."), Ts(k + 1, "."), cueText(k))]

PartitionInputs == {[cues |-> cueSequence(n)] : n \in 0..MaxPartition}

\* lines 172-191 for one cue sequence
PartitionApplied ==
  /\ applied = "none"
  /\ input \in PartitionInputs
  /\ applied' = "partition"
  /\ output' = [batches |-> batches(input.cues), requests |-> requests(input.cues)]
  /\ UNCHANGED <<input, callVars, serviceVars>>

\* "1\n00:00:01,000 --> 00:00:05,000\nHello\n\n2\n...": a document without
\* banner whose timing lines have the comma form
SrtDoc ==
  <<Index(1), SrtTiming(1, 5), Text(SourceLang, 1), Blank,
    Index(2), SrtTiming(6, 9), Text(SourceLang, 2), Text(SourceLang, 102), Blank>>

\* lines 160-255 when every batch is answered with one segment per cue: the
\* document translateSubtitle encodes, caches and returns
translatedContent(content, targetLang) ==
  LET parsed == decode(content)
      resolved == [b \in 1..numBatches(parsed) |->
                     LET texts == textsToTranslate(batchOf(parsed, b))
                     IN reconcile(joinSeparated(texts, 1, targetLang), texts)]
  IN convertCuesToVTT(applyTranslations(parsed, resolved))

TranslateInputs ==
  {[content |-> d, targetLang |-> "el"] : d \in {ExampleDoc, SrtDoc, LongDoc(MaxBatch)}}

\* lines 160-255 for one document
TranslateApplied ==
  /\ applied = "none"
  /\ input \in TranslateInputs
  /\ Len(decode(input.content)) > 0
  /\ applied' = "translate"
  /\ output' = translatedContent(input.content, input.targetLang)
  /\ UNCHANGED <<input, callVars, serviceVars>>

\* translationCache.set(cacheKey, translatedContent) at time now (Date.now(),
\* milliseconds): NodeCache keeps the value with the time its life ends
wrap(value, now) == [v |-> value, t |-> now + stdTTL * 1000]

\* mutant: an entry is dead from the millisecond its life ends
checkEndsEarly(data, now) == ~(data.t # 0 /\ data.t <= now)

\* NodeCache tells a live entry from an expired one, on get and on its sweep:
\* an entry is expired when the end of its life is before now
check(data, now) == ~(data.t # 0 /\ data.t < now)

\* translationCache.get(cacheKey) at time now: undefined for an expired entry
get(data, now) == IF check(data, now) THEN data.v ELSE NoDoc

\* the delays between the write and the lookup, in milliseconds
Delays == {0, 1, stdTTL * 1000 - 1, stdTTL * 1000, stdTTL * 1000 + 1, 2 * stdTTL * 1000}

LookupInputs ==
  {[value |-> translatedContent(ExampleDoc, "el"), writtenAt |-> w, lookupAt |-> w + d] :
     w \in {0, 1000}, d \in Delays}

\* line 258 at time writtenAt, then line 154 at time lookupAt
LookupApplied ==
  /\ applied = "none"
  /\ input \in LookupInputs
  /\ applied' = "lookup"
  /\ output' = get(wrap(input.value, input.writtenAt), input.lookupAt)
  /\ UNCHANGED <<input, callVars, serviceVars>>

Languages == {SourceLang, "el", "pt", "pt_BR", "BR_el"}

Triples ==
  {Args(d, s, t) : d \in {ExampleDoc, NoCueDoc}, s \in Languages, t \in Languages}

KeyInputs == {[stored |-> x, asked |-> y] : x \in Triples, y \in Triples}

\* lines 150-158 of a call with the arguments asked, when the cache holds the
\* document a call with the arguments stored has written: the key of each
\* call, and what the lookup returns
KeysApplied ==
  LET storedKey == cacheKeyOf(input.stored.content, input.stored.sourceLang,
                              input.stored.targetLang)
      cacheKey == cacheKeyOf(input.asked.content, input.asked.sourceLang,
                             input.asked.targetLang)
  IN /\ applied = "none"
     /\ input \in KeyInputs
     /\ applied' = "keys"
     /\ output' = [storedKey |-> storedKey, cacheKey |-> cacheKey,
                   cachedTranslation |-> IF cacheKey = storedKey THEN "stored" ELSE "undefined"]
     /\ UNCHANGED <<input, callVars, serviceVars>>

\* the texts of the cues that are encoded and decoded again: one line, two
\* lines, a line of digits only, a line that begins with NOTE, alone and next
\* to an ordinary line
CueTexts ==
  { <<Text(SourceLang, 1)>>,
    <<Text(SourceLang, 2), Text(SourceLang, 102)>>,
    <<Index(42)>>,
    <<Text(SourceLang, 3), Index(42)>>,
    <<Note>>,
    <<Note, Text(SourceLang, 4)>> }

\* the cue sequences of n cues with consecutive timestamps
RECURSIVE CueSequences(_)
CueSequences(n) ==
  IF n = 0 THEN {<<>>}
  ELSE {Append(cs, Cue(Ts(n, "."), Ts(n + 1, "."), txt)) :
          cs \in CueSequences(n - 1), txt \in CueTexts}

RoundTripInputs == {[cues |-> cs] : cs \in UNION {CueSequences(n) : n \in 1..MaxRoundTrip}}

\* parseSubtitleContent(convertCuesToVTT(cues), 'vtt')
RoundTripApplied ==
  /\ applied = "none"
  /\ input \in RoundTripInputs
  /\ applied' = "roundTrip"
  /\ output' = parseSubtitleContent(convertCuesToVTT(input.cues), "vtt")
  /\ UNCHANGED <<input, callVars, serviceVars>>

\* ---- format conversion (lib/subtitles.js) -----------------------------------
\* content.split(/\r?\n\r?\n/): an empty line ends a block when a newline
\* precedes and follows it and the newline before it is not the one that ended
\* the previous block
RECURSIVE blockLoop(_, _, _, _, _)
blockLoop(lines, i, cur, blocks, prevSep) ==
  IF i > Len(lines) THEN Append(blocks, IF cur = <<>> THEN EmptyString ELSE cur)
  ELSE IF lines[i] = Blank /\ i > 1 /\ i < Len(lines) /\ ~prevSep
  THEN blockLoop(lines, i + 1, <<>>, Append(blocks, IF cur = <<>> THEN EmptyString ELSE cur), TRUE)
  ELSE blockLoop(lines, i + 1, Append(cur, lines[i]), blocks, FALSE)

splitBlocks(content) == blockLoop(content, 1, <<>>, <<>>, FALSE)

\* lines.slice(n).join('\n'): the lines from the n-th on, '' when there is none
textFrom(lines, n) ==
  IF n > Len(lines) THEN EmptyString ELSE SubSeq(lines, n, Len(lines))

\* the for loop of convertSrtToVtt over the blocks from the b-th on
RECURSIVE srtBlocksToVtt(_, _)
srtBlocksToVtt(blocks, b) ==
  IF b > Len(blocks) THEN <<>>
  ELSE LET lines == blocks[b] IN
    IF Len(lines) < 3 \/ ~(lines[2].k = "timing" /\ lines[2].t = ",")
    THEN srtBlocksToVtt(blocks, b + 1)
    ELSE <<lines[1], Timing(lines[2].a, lines[2].b)>> \o textFrom(lines, 3) \o <<Blank>>
         \o srtBlocksToVtt(blocks, b + 1)

\* lib/subtitles.js lines 221-251
convertSrtToVtt(srtContent) ==
  <<Banner, Blank>> \o srtBlocksToVtt(splitBlocks(srtContent), 1) \o <<Blank>>

\* the index of the first empty line at or after i that a newline follows, 0
\* when there is none
RECURSIVE blankLineFrom(_, _)
blankLineFrom(lines, i) ==
  IF i >= Len(lines) THEN 0
  ELSE IF lines[i] = Blank THEN i ELSE blankLineFrom(lines, i + 1)

\* vttContent.replace(/^WEBVTT.*?(?:\r?\n\r?\n)/s, '')
withoutHeader(lines) ==
  LET j == blankLineFrom(lines, 2)
  IN IF lines[1].k = "banner" /\ j > 0 THEN SubSeq(lines, j + 1, Len(lines)) ELSE lines

\* contentWithoutHeader.replace(/NOTE.*?(?:\r?\n\r?\n)/gs, ''): from every
\* NOTE up to and including the next empty line
RECURSIVE withoutNotes(_, _)
withoutNotes(lines, i) ==
  IF i > Len(lines) THEN <<>>
  ELSE LET j == blankLineFrom(lines, i + 1) IN
    IF lines[i].k = "note" /\ j > 0
    THEN withoutNotes(lines, j + 1)
    ELSE <<lines[i]>> \o withoutNotes(lines, i + 1)

\* the for loop of convertVttToSrt over the blocks from the b-th on
RECURSIVE vttBlocksToSrt(_, _, _)
vttBlocksToSrt(blocks, b, index) ==
  IF b > Len(blocks) THEN <<>>
  ELSE LET lines == blocks[b]
           timeLineIndex == IF lines[1].k = "timing" THEN 1 ELSE 2
       IN IF Len(lines) < 2
             \/ ~(lines[timeLineIndex].k = "timing" /\ lines[timeLineIndex].t = ".")
          THEN vttBlocksToSrt(blocks, b + 1, index)
          ELSE <<Index(index), SrtTiming(lines[timeLineIndex].a, lines[timeLineIndex].b)>>
               \o textFrom(lines, timeLineIndex + 1) \o <<Blank>>
               \o vttBlocksToSrt(blocks, b + 1, index + 1)

\* lib/subtitles.js lines 258-302
convertVttToSrt(vttContent) ==
  LET cleanedContent == withoutNotes(withoutHeader(vttContent), 1)
      srt == vttBlocksToSrt(splitBlocks(cleanedContent), 1, 1)
  IN IF srt = <<>> THEN EmptyString ELSE srt \o <<Blank>>

\* a document of the given cues: per cue its number, its timing line in the
\* syntax of the format, its text and an empty line, after the banner for vtt
RECURSIVE documentBlocks(_, _, _)
documentBlocks(cueList, k, format) ==
  IF k > Len(cueList) THEN <<>>
  ELSE <<Index(k), Ln("timing", cueList[k].start.v, cueList[k].end.v,
                      IF format = "vtt" THEN "." ELSE ",")>>
       \o cueList[k].text \o <<Blank>> \o documentBlocks(cueList, k + 1, format)

documentOf(cueList, format) ==
  (IF format = "vtt" THEN <<Banner, Blank>> ELSE <<>>)
    \o documentBlocks(cueList, 1, format) \o <<Blank>>

ConvertInputs ==
  {[cues |-> cs, format |-> f] :
     cs \in UNION {CueSequences(n) : n \in 1..MaxRoundTrip}, f \in {"vtt", "srt"}}

\* a document converted to the other format and back
ConvertApplied ==
  LET document == documentOf(input.cues, input.format)
      there == IF input.format = "vtt" THEN convertVttToSrt(document)
               ELSE convertSrtToVtt(document)
      back == IF input.format = "vtt" THEN convertSrtToVtt(there)
              ELSE convertVttToSrt(there)
  IN /\ applied = "none"
     /\ input \in ConvertInputs
     /\ applied' = "convert"
     /\ output' = [document |-> document, there |-> there, back |-> back]
     /\ UNCHANGED <<input, callVars, serviceVars>>

\* the lines of the documents whose format is detected
DetectLines ==
  {Banner, Blank, Index(1), Timing(1, 5), SrtTiming(1, 5), Text(SourceLang, 1)}

DetectInputs == {[content |-> d] : d \in Strings(DetectLines, MaxDetect)}

\* /^\d+\r?\n\d{2}:\d{2}:\d{2},\d{3}\s-->\s\d{2}:\d{2}:\d{2},\d{3}/m.test(content):
\* a line of digits only, and the next line starts with a comma timing
srtPattern(content) ==
  \E i \in 1..(Len(content) - 1) :
    /\ content[i].k = "digits"
    /\ content[i + 1].k = "timing" /\ content[i + 1].t = ","

\* mutant: what is neither vtt nor srt counts as vtt
detectFormatDefaultsVtt(content) ==
  IF trim(content)[1].k = "banner" THEN "vtt"
  ELSE IF srtPattern(content) THEN "srt" ELSE "vtt"

\* getSubtitleContent: let format = 'unknown'; if (content.trim()
\* .startsWith('WEBVTT')) format = 'vtt'; else if (the pattern) format = 'srt'
detectFormat(content) ==
  IF trim(content)[1].k = "banner" THEN "vtt"
  ELSE IF srtPattern(content) THEN "srt" ELSE "unknown"

\* the format translateSubtitle parses one document with, and the format
\* getSubtitleContent detects in it
DetectApplied ==
  /\ applied = "none"
  /\ input \in DetectInputs
  /\ applied' = "detect"
  /\ output' = [translate |-> formatOf(input.content),
                fetch |-> detectFormat(input.content)]
  /\ UNCHANGED <<input, callVars, serviceVars>>

\* lines 162-163 for one document: the cues translateSubtitle goes on with
DecodeApplied ==
  /\ applied = "none"
  /\ input \in DetectInputs
  /\ applied' = "decode"
  /\ output' = [format |-> formatOf(input.content), cues |-> decode(input.content)]
  /\ UNCHANGED <<input, callVars, serviceVars>>

\* the number on the index line of a cue of an input document; 0: the cue has
\* no index line
IndexChoices == {0, 1, 3, 7}

\* a vtt document of n cues whose k-th cue carries the index ix[k]
RECURSIVE indexedBlocks(_, _)
indexedBlocks(ix, k) ==
  IF k > Len(ix) THEN <<>>
  ELSE (IF ix[k] = 0 THEN <<>> ELSE <<Index(ix[k])>>)
       \o <<Timing(k, k + 1)>> \o cueText(k) \o <<Blank>> \o indexedBlocks(ix, k + 1)

EncodeInputs ==
  {[content |-> <<Banner, Blank>> \o indexedBlocks(ix, 1), indices |-> ix] :
     ix \in UNION {[1..n -> IndexChoices] : n \in 1..MaxEncode}}

\* lines 163 and 255 for one document, no text replaced in between
EncodeApplied ==
  /\ applied = "none"
  /\ input \in EncodeInputs
  /\ applied' = "encode"
  /\ output' = [cues |-> decode(input.content),
                document |-> convertCuesToVTT(decode(input.content))]
  /\ UNCHANGED <<input, callVars, serviceVars>>

\* the orders in which the requests of n batches may complete
CompletionOrders(n) == {o \in [1..n -> 1..n] : \A i, j \in 1..n : o[i] = o[j] => i = j}

\* the texts of every batch of a cue sequence
batchTextsOf(parsed) ==
  [b \in 1..numBatches(parsed) |-> textsToTranslate(batchOf(parsed, b))]

\* a document without index lines and empty lines: the banner, then per cue
\* its timing line and one line of text
RECURSIVE compactBlocks(_, _)
compactBlocks(k, n) ==
  IF k > n THEN <<>>
  ELSE <<Timing(k, k + 1), Text(SourceLang, k)>> \o compactBlocks(k + 1, n)

CompactDoc(n) == <<Banner>> \o compactBlocks(1, n)

CompletionInputs ==
  LET content == CompactDoc(MaxPartition)
      texts == batchTextsOf(decode(content))
      n == Len(texts)
      all == UNION {ModelAnswers(texts[b], "el") : b \in 1..n}
  IN {[content |-> content, responses |-> r, order |-> o] :
        r \in {f \in [1..n -> all] : \A b \in 1..n : f[b] \in ModelAnswers(texts[b], "el")},
        o \in CompletionOrders(n)}

\* the callbacks of lines 183-241 run in the order given, each with the
\* response to its own batch; what a callback returns is the value of its
\* promise, and a callback that throws rejects Promise.all at once
RECURSIVE callbacks(_, _, _, _, _)
callbacks(order, i, responses, texts, values) ==
  IF i > Len(order) THEN [status |-> "resolved", values |-> values]
  ELSE LET b == order[i]
       IN IF responses[b].kind # "text"
          THEN [status |-> "rejected", values |-> values]
          ELSE callbacks(order, i + 1, responses, texts,
                         values @@ (b :> reconcile(responses[b].text, texts[b])))

\* mutant: Promise.all resolves with the values in the order of completion
promiseAllByCompletion(order, responses, texts) ==
  LET settled == callbacks(order, 1, responses, texts, <<>>)
  IN [settled EXCEPT !.values =
        [i \in 1..Len(order) |->
           IF order[i] \in DOMAIN settled.values THEN settled.values[order[i]] ELSE <<>>]]

\* await Promise.all(batches.map(async ...)): the value of the promise of
\* batch b is element b of the array, whenever it was settled
promiseAll(order, responses, texts) ==
  LET settled == callbacks(order, 1, responses, texts, <<>>)
  IN [settled EXCEPT !.values =
        [b \in 1..Len(order) |->
           IF b \in DOMAIN settled.values THEN settled.values[b] ELSE <<>>]]

\* lines 160-266 when the requests complete in the order given: the text
\* returned and the cues as lines 243-252 leave them
translatedIn(content, responses, order) ==
  LET parsed == decode(content)
      all == promiseAll(order, responses, batchTextsOf(parsed))
  IN IF all.status = "rejected"
     THEN [returned |-> content, cues |-> parsed]
     ELSE LET translatedCues == applyTranslations(parsed, all.values)
          IN [returned |-> convertCuesToVTT(translatedCues), cues |-> translatedCues]

\* one document translated with given responses completing in a given order
CompletionsApplied ==
  /\ applied = "none"
  /\ DOMAIN input = {"content", "responses", "order"}
  /\ input \in CompletionInputs
  /\ applied' = "completions"
  /\ output' = translatedIn(input.content, input.responses, input.order)
  /\ UNCHANGED <<input, callVars, serviceVars>>

\* ---- retryWithExponentialBackoff (lib/utils.js) ---------------------------------
RetryInputs == {[maxRetries |-> m, baseDelay |-> 1000] : m \in 0..MaxRetries}

\* let retries = 0, before the loop: nothing invoked yet. outcomes is the
\* history of the invocations of operation, value the result returned or the
\* error thrown, named by the number of the invocation it came from
RetryCalled ==
  /\ applied = "none"
  /\ input \in RetryInputs
  /\ applied' = "retry"
  /\ output' = [retries |-> 0, outcomes |-> <<>>, status |-> "running",
                value |-> 0, delayTime |-> 0]
  /\ UNCHANGED <<input, callVars, serviceVars>>

\* mutant: the last retry is not made
exceededEarly(retries, maxRetries) == retries >= maxRetries

\* if (retries > maxRetries)
exceeded(retries, maxRetries) == retries > maxRetries

\* one pass of the while loop when operation() settles with the outcome
\* given: return its result, or count the failure and rethrow or sleep
iteration(state, outcome, maxRetries, baseDelay) ==
  LET invocation == Len(state.outcomes) + 1
      outcomes == Append(state.outcomes, outcome)
      retries == state.retries + 1
  IN IF outcome = "ok"
     THEN [state EXCEPT !.outcomes = outcomes, !.status = "returned",
                        !.value = invocation]
     ELSE IF exceeded(retries, maxRetries)
     THEN [state EXCEPT !.outcomes = outcomes, !.retries = retries,
                        !.status = "thrown", !.value = invocation]
     ELSE [state EXCEPT !.outcomes = outcomes, !.retries = retries,
                        !.delayTime = baseDelay * 2 ^ (retries - 1)]

\* lines 289-304: operation is invoked and resolves or rejects
RetryIteration ==
  /\ applied = "retry"
  /\ output.status = "running"
  /\ \E outcome \in {"ok", "fail"} :
       output' = iteration(output, outcome, input.maxRetries, input.baseDelay)
  /\ UNCHANGED <<applied, input, callVars, serviceVars>>

FunctionsInit ==
  /\ NoCalls
  /\ NoService
  /\ applied = "none"
  /\ output = NoInput
  /\ \/ input \in ReconcileInputs
     \/ input \in PartitionInputs
     \/ input \in TranslateInputs
     \/ input \in LookupInputs
     \/ input \in KeyInputs
     \/ input \in RoundTripInputs
     \/ input \in DetectInputs
     \/ input \in ConvertInputs
     \/ input \in CompletionInputs
     \/ input \in EncodeInputs
     \/ input \in RetryInputs

FunctionsNext ==
  \/ ReconcileApplied
  \/ PartitionApplied
  \/ TranslateApplied
  \/ LookupApplied
  \/ KeysApplied
  \/ RoundTripApplied
  \/ ConvertApplied
  \/ DetectApplied
  \/ DecodeApplied
  \/ EncodeApplied
  \/ CompletionsApplied
  \/ RetryCalled
  \/ RetryIteration

Functions == FunctionsInit /\ [][FunctionsNext]_vars

\* ---- the subtitle service (lib/subtitles.js) and the subtitles handler (addon.js)
\* Strings that are joined into keys and ids are sequences of their pieces.
Types == {"movie"}

\* the second media id is, as a string, the key under which
\* saveTranslatedSubtitle keeps the list of the first
MediaIds == {"tt1", "subtitles-tt1"}

idPieces(mediaId) ==
  IF mediaId = "subtitles-tt1" THEN <<"subtitles", "-", "tt1">> ELSE <<mediaId>>

\* `subtitles-${type}-${mediaId}`
findKey(type, mediaId) == <<"subtitles", "-", type, "-">> \o idPieces(mediaId)

\* `subtitles-${mediaId}`
saveKey(mediaId) == <<"subtitles", "-">> \o idPieces(mediaId)

\* subtitleCache.get(mediaId)
mediaKey(mediaId) == idPieces(mediaId)

\* `translation_${originalId}_${targetLang}`
translationKey(originalId, targetLang) ==
  <<"translation", "_">> \o originalId \o <<"_", targetLang>>

\* `translate_${originalId}_${targetLang}`, `translate_${mediaId}_${userLang}`
translateId(id, lang) == <<"translate", "_">> \o id \o <<"_", lang>>

Undefined == [kind |-> "undefined"]

ListOf(items) == [kind |-> "list", items |-> items]

\* a subtitle object: its id, whether the id is a string (the file_id of a
\* search result is a number), its language, its format ("none": no such
\* property), where its url points and its rating
Sub(id, idIsString, lang, format, url, rating) ==
  [kind |-> "subtitle", id |-> id, idIsString |-> idIsString, lang |-> lang,
   format |-> format, url |-> url, rating |-> rating]

cacheGet(cache, key) == IF key \in DOMAIN cache THEN cache[key] ELSE Undefined

cacheSet(cache, key, value) ==
  [k \in DOMAIN cache \cup {key} |-> IF k = key THEN value ELSE cache[k]]

\* what searchOpenSubtitles may come back with: nothing, an English subtitle
\* with the numeric file_id as id, a French subtitle whose id is a string
SearchResults ==
  { <<>>,
    <<Sub(<<"101">>, FALSE, "en", "none", "remote", 0)>>,
    <<Sub(<<"s1">>, TRUE, "fr", "none", "remote", 0)>> }

Outcome(cache, status, via, value) ==
  [cache |-> cache, status |-> status, via |-> via, value |-> value]

\* findSubtitles: the cached value if there is one, else the search results,
\* cached when there are any; cacheFault: subtitleCache.get throws
findSubtitles(cache, type, mediaId, found, cacheFault) ==
  LET cacheKey == findKey(type, mediaId)
      cachedSubtitles == cacheGet(cache, cacheKey)
  IN IF cacheFault THEN Outcome(cache, "rejected", "get", Undefined)
     ELSE IF cachedSubtitles # Undefined
     THEN Outcome(cache, "resolved", "cache", cachedSubtitles)
     ELSE Outcome(IF Len(found) > 0 THEN cacheSet(cache, cacheKey, ListOf(found))
                  ELSE cache,
                  "resolved", "search", ListOf(found))

\* saveTranslatedSubtitle: env "noDir": ensureCacheDir returns false,
\* "writeFails": writeFile rejects
saveTranslatedSubtitle(cache, mediaId, lang, subtitleId, env) ==
  LET subtitle == Sub(<<lang, "-", subtitleId>>, TRUE, lang, "none", "remote", 10)
      cacheKey == saveKey(mediaId)
      cached == cacheGet(cache, cacheKey)
      cachedSubtitles == IF cached = Undefined THEN <<>> ELSE cached.items
  IN IF env # "ok" THEN Outcome(cache, "rejected", env, Undefined)
     ELSE Outcome(cacheSet(cache, cacheKey, ListOf(<<subtitle>> \o cachedSubtitles)),
                  "resolved", "saved", subtitle)

\* subtitles.find(sub => sub.id === originalId)
findById(subtitles, originalId) ==
  SelectSeq(subtitles, LAMBDA sub : sub.id = originalId)

\* handleTranslationRequest. env: "ok"; "contentFails": the content cannot be
\* fetched and the dummy file is read; "dummyFails": the dummy file cannot be
\* read either; "translateRejects": translateSubtitle rejects; "writeFails":
\* the file cannot be written
handleTranslationRequest(cache, originalId, mediaId, targetLang, env) ==
  LET cacheKey == translationKey(originalId, targetLang)
      cachedTranslation == cacheGet(cache, cacheKey)
      cachedSubtitles == cacheGet(cache, mediaKey(mediaId))
      fallbackSubtitle ==
        Sub(translateId(originalId, targetLang), TRUE, targetLang, "vtt", "dummy.vtt", 0)
      caught == Outcome(cache, "resolved", "caught", fallbackSubtitle)
  IN IF cachedTranslation # Undefined
     THEN Outcome(cache, "resolved", "cache", cachedTranslation)
     ELSE IF cachedSubtitles = Undefined \/ cachedSubtitles = ListOf(<<>>)
     \* fetchSubtitlesFromAPI is defined nowhere: the call throws a
     \* ReferenceError inside the try block
     THEN caught
     ELSE IF cachedSubtitles.kind # "list"
     \* subtitles.find is not a function
     THEN caught
     ELSE LET originalSubtitle == findById(cachedSubtitles.items, originalId)
          IN IF originalSubtitle = <<>>
             THEN Outcome(cacheSet(cache, cacheKey, fallbackSubtitle),
                          "resolved", "notFound", fallbackSubtitle)
             ELSE IF env \in {"dummyFails", "translateRejects", "writeFails"}
             THEN caught
             ELSE LET format == IF originalSubtitle[1].format = "none" THEN "vtt"
                                ELSE originalSubtitle[1].format
                      translatedSubtitle ==
                        Sub(translateId(originalId, targetLang), TRUE, targetLang,
                            format, "translations", 0)
                  IN Outcome(cacheSet(cache, cacheKey, translatedSubtitle),
                             "resolved", "translated", translatedSubtitle)

\* the extra of a request: none at all, {}, { language: 'fr' },
\* { config: { targetLanguage: 'de' } }
Extras == {"absent", "empty", "language", "config"}

\* userConfig.targetLanguage || extra.language || 'el'
userLangOf(extra) ==
  CASE extra = "config" -> "de" [] extra = "language" -> "fr" [] OTHER -> "el"

\* lines 57-107: the options added to the subtitles found, or thrown: true
\* when sub.id.includes is called on an id that is not a string
optionsFor(found, mediaId, userLang) ==
  LET translationOption == Sub(translateId(idPieces(mediaId), userLang), TRUE, userLang,
                               "none", "direct", 10)
      subtitles == Append(found, translationOption)
      englishSubs == SelectSeq(subtitles, LAMBDA sub : sub.lang = "en")
      otherSubs == SelectSeq(subtitles, LAMBDA sub : sub.lang # "en" /\ sub.lang # userLang)
      subsToTranslate == IF englishSubs # <<>> THEN englishSubs ELSE otherSubs
      specific == [i \in 1..Min(Len(subsToTranslate), 3) |->
                     Sub(subsToTranslate[i].id \o <<"_translate_", userLang>>, TRUE,
                         userLang, "none", "translate", 10 - i)]
      all == subtitles \o specific
      thrown == \E k \in DOMAIN all :
                  /\ ~all[k].idIsString
                  /\ all[k].lang = "en" \/ all[k].lang # userLang \/ all[k].lang = "el"
  IN [thrown |-> thrown,
      subtitles |-> [k \in DOMAIN all |->
                       IF all[k].lang = "el" THEN [all[k] EXCEPT !.rating = 11]
                       ELSE all[k]]]

\* the handler given to defineSubtitlesHandler, called with { type, id, extra }
subtitlesHandler(cache, type, id, extra, found, cacheFault) ==
  LET userLang == userLangOf(extra)
      search == findSubtitles(cache, type, id, found, cacheFault)
      fallbackOption == Sub(translateId(idPieces(id), userLang), TRUE, userLang,
                            "none", "direct", 10)
      options == optionsFor(IF search.value.kind = "list" THEN search.value.items ELSE <<>>,
                            id, userLang)
  IN IF extra = "absent"
     \* extra.config of undefined, before the try block
     THEN Outcome(cache, "rejected", "extra", Undefined)
     ELSE IF search.status = "rejected" \/ search.value.kind # "list" \/ options.thrown
     THEN Outcome(search.cache, "resolved", "caught", ListOf(<<fallbackOption>>))
     ELSE Outcome(search.cache, "resolved", "options", ListOf(options.subtitles))

\* an operation of the service completes: its outcome is the last one
completed(op, arguments, outcome) ==
  /\ ops < MaxOps
  /\ ops' = ops + 1
  /\ subtitleCache' = outcome.cache
  /\ last' = [op |-> op, args |-> arguments, status |-> outcome.status,
              via |-> outcome.via, value |-> outcome.value]
  /\ UNCHANGED <<callVars, functionVars>>

FindSubtitles ==
  \E type \in Types, mediaId \in MediaIds, found \in SearchResults, cacheFault \in BOOLEAN :
    completed("findSubtitles", [type |-> type, mediaId |-> mediaId],
              findSubtitles(subtitleCache, type, mediaId, found, cacheFault))

SaveTranslatedSubtitle ==
  \E mediaId \in MediaIds, subtitleId \in {"h1"}, env \in {"ok", "noDir", "writeFails"} :
    completed("saveTranslatedSubtitle", [mediaId |-> mediaId, lang |-> "el"],
              saveTranslatedSubtitle(subtitleCache, mediaId, "el", subtitleId, env))

OriginalIds == {<<"101">>, <<"el", "-", "h1">>}

HandleTranslationRequest ==
  \E originalId \in OriginalIds, mediaId \in MediaIds, targetLang \in {"el", "fr"},
     env \in {"ok", "contentFails", "dummyFails", "translateRejects", "writeFails"} :
    completed("handleTranslationRequest",
              [originalId |-> originalId, mediaId |-> mediaId, targetLang |-> targetLang],
              handleTranslationRequest(subtitleCache, originalId, mediaId, targetLang, env))

SubtitlesHandler ==
  \E type \in Types, id \in MediaIds, extra \in Extras, found \in SearchResults,
     cacheFault \in BOOLEAN :
    completed("subtitlesHandler", [type |-> type, id |-> id, extra |-> extra],
              subtitlesHandler(subtitleCache, type, id, extra, found, cacheFault))

ServiceNext ==
  \/ FindSubtitles
  \/ SaveTranslatedSubtitle
  \/ HandleTranslationRequest
  \/ SubtitlesHandler

Service == Init /\ [][ServiceNext]_vars

\* ---- reconciliation (C11) ---------------------------------------------------
\* translatedText.split('\n') as the claim reads it: every line a segment
plainLines(text) == [j \in 1..Len(text) |-> <<text[j]>>]

\* the lines that are not blank, each a segment
nonBlankLines(text) ==
  LET kept == SelectSeq(text, LAMBDA l : l # Blank)
  IN [j \in 1..Len(kept) |-> <<kept[j]>>]

\* the two-tier rule over a given newline split
twoTier(segments, lines, texts) ==
  IF Len(segments) = Len(texts) THEN segments
  ELSE IF Len(lines) >= Len(texts) THEN SubSeq(lines, 1, Len(texts))
  ELSE texts

\* C11 as stated: the separator segments when they are as many as the cues,
\* else the first N segments of the split on plain newlines when there are at
\* least N, else the original texts; always as many texts as cues.
C11_TwoTierOnPlainNewlines ==
  applied = "reconcile"
    => /\ Len(output) = Len(input.textsToTranslate)
       /\ output = twoTier(splitOnSeparator(input.translatedText),
                           plainLines(input.translatedText),
                           input.textsToTranslate)

\* C11 amended: the second tier counts and takes the non-blank lines of the
\* response only.
C11_TwoTierOnNonBlankLines ==
  applied = "reconcile"
    => /\ Len(output) = Len(input.textsToTranslate)
       /\ output = twoTier(splitOnSeparator(input.translatedText),
                           nonBlankLines(input.translatedText),
                           input.textsToTranslate)

\* two cues answered by two lines with a blank line between them
C11_Witness ==
  /\ applied = "reconcile"
  /\ input.translatedText = <<Text("el", 1), Blank, Text("el", 2)>>
  /\ Len(input.textsToTranslate) = 2
  /\ output = <<(<<Text("el", 1)>>), (<<Text("el", 2)>>)>>

\* ---- partition (C12) --------------------------------------------------------
RECURSIVE concatenated(_)
concatenated(seqs) ==
  IF seqs = <<>> THEN <<>> ELSE Head(seqs) \o concatenated(Tail(seqs))

\* C12: every batch but the last holds exactly 10 cues and the last between 1
\* and 10, the batches concatenated in order are the cue sequence, and there is
\* exactly one request per batch, made of the texts of that batch.
C12_PartitionIsExact ==
  applied = "partition"
    => LET made == output.batches
       IN /\ \A b \in 1..Len(made) :
               /\ Len(made[b]) \in 1..batchSize
               /\ b < Len(made) => Len(made[b]) = batchSize
          /\ concatenated(made) = input.cues
          /\ Len(output.requests) = Len(made)
          /\ \A b \in 1..Len(made) :
               output.requests[b] = [j \in 1..Len(made[b]) |-> made[b][j].text]

\* two full batches and a last batch of one cue
C12_Witness ==
  /\ applied = "partition"
  /\ Len(input.cues) = 2 * batchSize + 1
  /\ Len(output.batches) = 3
  /\ Len(output.batches[3]) = 1

\* ---- output format (C13) ----------------------------------------------------
\* the millisecond separator of every timing line of a document is sep
timingSyntax(doc, sep) == \A j \in 1..Len(doc) : doc[j].k = "timing" => doc[j].t = sep

\* C13: the translated document has the format of the input: without banner
\* and with comma timestamps for an srt input, with banner and dot timestamps
\* for a vtt input.
C13_OutputInOriginalFormat ==
  applied = "translate"
    => IF formatOf(input.content) = "srt"
       THEN output[1] # Banner /\ timingSyntax(output, ",")
       ELSE output[1] = Banner /\ timingSyntax(output, ".")

\* ---- cache accesses of one call (C14) ---------------------------------------
\* C14: a call reads the cache exactly once, when it is invoked and before it
\* decodes or asks the model; it writes the cache at most once, in the step in
\* which its last batch call completes and the document is encoded; nothing
\* else reads or writes the cache.
C14_ReadOnceThenWriteOnce ==
  [][ /\ \A c \in Calls :
           /\ pc'[c] # "idle" => stats'[c].cacheReads = 1
           /\ stats'[c].cacheWrites <= 1
           /\ stats'[c].cacheReads # stats[c].cacheReads
                => /\ pc[c] = "idle"
                   /\ stats[c] = Stats(0, 0, 0, 0)
           /\ stats'[c].cacheWrites # stats[c].cacheWrites
                => /\ pc[c] = "waiting" /\ pc'[c] = "done"
                   /\ stats[c].cacheReads = 1 /\ stats[c].modelCalls = Len(answers[c])
                   /\ \A b \in 1..Len(answers'[c]) : answers'[c][b].kind = "text"
                   /\ translationCache'[keyOf(c)] \in
                        {translationCache[keyOf(c)], convertCuesToVTT(cues'[c])}
      /\ translationCache' # translationCache
           => \E c \in Calls : stats'[c].cacheWrites # stats[c].cacheWrites
    ]_vars

\* a call that read once, asked the model for two batches and wrote once
C14_Witness ==
  \E c \in Calls :
    /\ translatedDocument(c) /\ Len(answers[c]) = 2
    /\ stats[c] = Stats(1, 1, 1, 2)
    /\ translationCache[keyOf(c)] = result[c].value

\* ---- overlapping calls for one key (C15) ------------------------------------
\* neither call had returned when the other was invoked
overlapping(c1, c2) ==
  /\ c1 # c2 /\ pc[c1] # "idle" /\ pc[c2] # "idle"
  /\ c1 \notin precededBy[c2] /\ c2 \notin precededBy[c1]

\* C15 as stated: two overlapping calls for one key that both translated wrote
\* equal documents.
C15_OverlappingCallsWriteEqualValues ==
  \A c1 \in Calls, c2 \in Calls :
    overlapping(c1, c2) /\ sameKey(c1, c2)
      /\ translatedDocument(c1) /\ translatedDocument(c2)
      => result[c1].value = result[c2].value

\* C15 amended: when a call stores its document, the entry of its key becomes
\* that document, whatever an overlapping call for the same key stored before;
\* both calls asked the model, and the two documents are equal when the model
\* gave both calls the same answers.
C15_LastWriteWins ==
  [][ \A c \in Calls :
        stats'[c].cacheWrites # stats[c].cacheWrites /\ result'[c].via = "translated"
          => /\ translationCache'[keyOf(c)] = result'[c].value
             /\ \A d \in Calls :
                  overlapping(c, d) /\ sameKey(c, d) /\ translatedDocument(d)
                    => /\ stats[c].modelCalls > 0 /\ stats[d].modelCalls > 0
                       /\ answers'[c] = answers[d] => result'[c].value = result[d].value
    ]_vars

\* two overlapping calls for the long document, answered differently, and the
\* entry holds a document that one of them did not return
C15_Witness ==
  \E c1 \in Calls, c2 \in Calls :
    /\ overlapping(c1, c2) /\ sameKey(c1, c2)
    /\ translatedDocument(c1) /\ translatedDocument(c2)
    /\ Len(answers[c1]) = 2 /\ answers[c1] # answers[c2]
    /\ translationCache[keyOf(c1)] = result[c2].value
    /\ translationCache[keyOf(c1)] # result[c1].value

\* ---- time to live (C16) -----------------------------------------------------
Day == 24 * 60 * 60 * 1000

C17_KeySeparatesArguments ==
  applied = "keys"
    => /\ input.stored # input.asked => output.storedKey # output.cacheKey
       /\ output.cachedTranslation = "stored" => input.stored = input.asked

\* ---- cache faults (C18) -----------------------------------------------------
\* the cache lookup of call c threw
lookupThrew(c) == returned(c) /\ result[c].via = "lookup"

\* every batch of call c was answered and the cache write threw
writeThrew(c) ==
  returned(c) /\ allAnswered(c) /\ stats[c].cacheWrites = 1 /\ result[c].via = "fallback"

\* C18: a call whose cache lookup or cache write throws still resolves, and
\* a call whose batches were all answered returns the translated document
\* although the write threw.
C18_CacheFaultIsPassThrough ==
  \A c \in Calls :
    /\ lookupThrew(c) => result[c].status = "resolved"
    /\ writeThrew(c)
         => /\ result[c].status = "resolved"
            /\ result[c].value = convertCuesToVTT(cues[c])
            /\ result[c].value # args[c].content

\* ---- round trip of the cue codec (C19) --------------------------------------
\* C19: decoding the vtt encoding of a cue sequence gives the same cues, with
\* the same start, end and text, in the same order.
C19_DecodeInvertsEncode ==
  applied = "roundTrip" => output = input.cues

\* ---- format conversion round trip (C20) -------------------------------------
\* the cues a document shows: for every block with a timing line, the two
\* timestamps of that line and the lines after it
RECURSIVE cuesShown(_, _)
cuesShown(blocks, b) ==
  IF b > Len(blocks) THEN <<>>
  ELSE LET lines == blocks[b]
           at == IF lines[1].k = "timing" THEN 1
                 ELSE IF Len(lines) > 1 /\ lines[2].k = "timing" THEN 2 ELSE 0
       IN (IF at = 0 THEN <<>>
           ELSE <<[start |-> lines[at].a, end |-> lines[at].b,
                   text |-> SubSeq(lines, at + 1, Len(lines))]>>)
          \o cuesShown(blocks, b + 1)

\* C20: a document converted to the other format and back shows the cues it
\* showed before: the same timestamps and the same text, in the same order,
\* none dropped.
C20_ConversionRoundTrip ==
  applied = "convert"
    => cuesShown(splitBlocks(output.back), 1)
         = [k \in 1..Len(input.cues) |->
              [start |-> input.cues[k].start.v, end |-> input.cues[k].end.v,
               text |-> input.cues[k].text]]

\* ---- format detection (C21) ---------------------------------------------------
\* the first line of a document that is not blank, <<>> when every line is
RECURSIVE firstNonBlank(_)
firstNonBlank(content) ==
  IF content = <<>> THEN <<>>
  ELSE IF Head(content) = Blank THEN firstNonBlank(Tail(content))
  ELSE <<Head(content)>>

bannerFirst(content) == firstNonBlank(content) = <<Banner>>

\* C21 as stated: a document is vtt when its first non-blank line is the
\* banner, srt when the srt timestamp pattern is found in it, and vtt in every
\* other case, wherever its format is detected.
C21_UnrecognizedIsVtt ==
  applied = "detect" =>
    LET expected == IF bannerFirst(input.content) THEN "vtt"
                    ELSE IF srtPattern(input.content) THEN "srt" ELSE "vtt"
    IN output.translate = expected /\ output.fetch = expected

\* C21 amended: a document whose first non-blank line is the banner is vtt in
\* both places. Of the others, translateSubtitle takes every one as srt
\* without looking for a timestamp, and getSubtitleContent takes as srt those
\* that hold the srt pattern and leaves the rest unclassified ("unknown").
C21_UnrecognizedIsSrtOrUnknown ==
  applied = "detect" =>
    /\ bannerFirst(input.content) => output.translate = "vtt" /\ output.fetch = "vtt"
    /\ ~bannerFirst(input.content) =>
         /\ output.translate = "srt"
         /\ srtPattern(input.content) => output.fetch = "srt"
         /\ ~srtPattern(input.content) => output.fetch = "unknown"

\* a document of one line of text, neither vtt nor srt, has been classified
C21_Witness ==
  /\ applied = "detect"
  /\ input.content = <<Text(SourceLang, 1)>>
  /\ output = [translate |-> "srt", fetch |-> "unknown"]

\* ---- cues without text (C22) --------------------------------------------------
\* C22: every cue that decode returns has text that is not empty after
\* trimming; a timing line followed by no line of text gives no cue.
C22_NoCueWithoutText ==
  applied = "decode" =>
    \A k \in DOMAIN output.cues : trim(output.cues[k].text) # EmptyString

\* ---- layout of the encoded document (C23) ---------------------------------------
\* the line on which the block of the k-th cue begins: the banner and the
\* empty line come first, and a block is the index line, the timing line, the
\* lines of the text and an empty line
RECURSIVE blockStart(_, _)
blockStart(cs, k) ==
  IF k = 1 THEN 3 ELSE blockStart(cs, k - 1) + Len(cs[k - 1].text) + 3

\* C23: the encoded document is the banner and an empty line, then for the
\* k-th cue (k from 1 without gaps, whatever indices the input carried) the
\* line k, the line 'start --> end', the text and an empty line, and nothing
\* else (the text of the document ends with the newline of the last empty
\* line); the one-cue example translated to Greek is banner, empty line, 1,
\* timing line, translated text, empty line.
C23_EncodeLayout ==
  /\ applied = "encode" =>
       LET d == output.document
           cs == output.cues
       IN /\ Len(cs) = Len(input.indices)
          /\ d[1] = Banner /\ d[2] = Blank
          /\ \A k \in DOMAIN cs :
               LET p == blockStart(cs, k)
                   n == Len(cs[k].text)
               IN /\ d[p] = Index(k)
                  /\ d[p + 1] = Timing(cs[k].start.v, cs[k].end.v)
                  /\ SubSeq(d, p + 2, p + 1 + n) = cs[k].text
                  /\ d[p + 2 + n] = Blank
          /\ Len(d) = blockStart(cs, Len(cs) + 1)
          /\ d[Len(d)] = Blank
  /\ applied = "translate" /\ input.content = ExampleDoc =>
       output = <<Banner, Blank, Index(1), Timing(1, 5), Text("el", 1), Blank, Blank>>

\* a document whose two cues carry the indices 7 and 3 has been encoded
C23_Witness ==
  /\ applied = "encode"
  /\ input.indices = <<7, 3>>
  /\ output.document[3] = Index(1)
  /\ output.document[blockStart(output.cues, 2)] = Index(2)

\* ---- termination (C24) ---------------------------------------------------------
\* C24: every call of translateSubtitle that has been made eventually is done
\* and has returned text, when every request to the model is eventually
\* answered or fails; no call stays waiting for another batch.
C24_EveryCallReturnsText ==
  \A c \in Calls :
    (pc[c] # "idle") ~> (pc[c] = "done" /\ result[c].status = "resolved")

\* what does hold: a call that waits for its batches eventually returns text
waitingCallReturnsText ==
  \A c \in Calls :
    (pc[c] = "waiting") ~> (pc[c] = "done" /\ result[c].status = "resolved")

\* ---- order of completion (C25) ---------------------------------------------------
\* 1, 2, .., n: the requests complete in the order of their batches
inBatchOrder(n) == [i \in 1..n |-> i]

\* C25: for fixed responses the text returned is the same whatever the order
\* in which the requests complete, and when every request is answered the
\* texts of batch j are on cues 10j .. 10j+9 (counted from 0), in order.
C25_OrderOfCompletionIsIrrelevant ==
  applied = "completions" =>
    LET n == Len(input.order)
        parsed == decode(input.content)
    IN /\ output.returned =
            translatedIn(input.content, input.responses, inBatchOrder(n)).returned
       /\ (\A b \in 1..n : input.responses[b].kind = "text") =>
            \A b \in 1..n :
              LET texts == textsToTranslate(batchOf(parsed, b))
                  new == reconcile(input.responses[b].text, texts)
              IN \A i \in 1..Len(texts) :
                   output.cues[batchSize * (b - 1) + i].text = trim(new[i])

\* the last batch was answered first, the first batch last, and the texts
\* of the first batch are translated on its cues
C25_Witness ==
  /\ applied = "completions"
  /\ Len(input.order) = 3
  /\ input.order = <<3, 2, 1>>
  /\ \A b \in 1..3 : input.responses[b].kind = "text"
  /\ output.cues[1].text = <<Text("el", 1)>>
  /\ output.cues[2 * batchSize + 1].text = <<Text("el", 2 * batchSize + 1)>>

\* ---- the separator in the output (C26) ---------------------------------------------
\* the cues of a batch of n cues after lines 243-252 have written the texts
\* the callback resolved with
cuesOfBatch(n, texts) == applyTranslations(cueSequence(n), <<texts>>)

\* C26: whatever the model responds, no cue of the document that is encoded,
\* cached and returned has the separator line --- as its text, also when the
\* response is split on newlines.
C26_SeparatorNeverACueText ==
  applied = "reconcile" =>
    LET translatedCues == cuesOfBatch(Len(input.textsToTranslate), output)
    IN \A k \in DOMAIN translatedCues : translatedCues[k].text # <<Sep>>

\* ---- retries (C27) -----------------------------------------------------------------
allFailed(outcomes) == \A i \in DOMAIN outcomes : outcomes[i] = "fail"

\* C27: operation is invoked at most maxRetries + 1 times; the result of the
\* first invocation that succeeds is returned and nothing is invoked after
\* it; after maxRetries + 1 failed invocations the error of the last one is
\* thrown; and the loop ends: while it runs fewer than maxRetries + 1
\* invocations have been made and the next one can be made.
C27_RetryIsBounded ==
  applied = "retry" =>
    LET n == Len(output.outcomes)
    IN /\ n <= input.maxRetries + 1
       /\ output.status = "running" =>
            /\ allFailed(output.outcomes)
            /\ n <= input.maxRetries
            /\ ENABLED RetryIteration
       /\ output.status = "returned" =>
            /\ n >= 1 /\ output.outcomes[n] = "ok"
            /\ allFailed(SubSeq(output.outcomes, 1, n - 1))
            /\ output.value = n
       /\ output.status = "thrown" =>
            /\ n = input.maxRetries + 1
            /\ allFailed(output.outcomes)
            /\ output.value = n

\* with maxRetries 2, the third invocation has failed and its error is thrown
C27_Witness ==
  /\ applied = "retry"
  /\ input.maxRetries = 2
  /\ output.status = "thrown"
  /\ output.outcomes = <<"fail", "fail", "fail">>
  /\ output.value = 3
  /\ output.delayTime = 2000

\* ---- the saved subtitle in the cached list (C28) ----------------------------------
\* the subtitle is an element of the cached value
listed(value, subtitle) ==
  value.kind = "list" /\ \E k \in DOMAIN value.items : value.items[k] = subtitle

\* C28: once saveTranslatedSubtitle(mediaId, ...) has completed, the subtitle
\* it saved is in the list findSubtitles(type, mediaId) is served from the
\* cache, and in the list in which handleTranslationRequest(originalId,
\* mediaId, ...) looks the original up.
C28_SavedSubtitleIsListed ==
  last # NoInput /\ last.op = "saveTranslatedSubtitle" /\ last.status = "resolved" =>
    /\ \A type \in Types :
         listed(findSubtitles(subtitleCache, type, last.args.mediaId, <<>>, FALSE).value,
                last.value)
    /\ listed(cacheGet(subtitleCache, mediaKey(last.args.mediaId)), last.value)


\* ---- the handler's answer (C29) -----------------------------------------------
\* the AI translation option of a request: translate_<mediaId>_<userLang>
offersTranslation(value, id, extra) ==
  /\ value.kind = "list"
  /\ \E k \in DOMAIN value.items :
       /\ value.items[k].id = translateId(idPieces(id), userLangOf(extra))
       /\ value.items[k].lang = userLangOf(extra)

\* C29: the subtitles handler never rejects and always resolves to a list
\* holding the AI translation option translate_<mediaId>_<userLang>,
\* whatever the search does and whether or not the request has an extra.
C29_HandlerAlwaysOffersTranslation ==
  last # NoInput /\ last.op = "subtitlesHandler" =>
    /\ last.status = "resolved"
    /\ offersTranslation(last.value, last.args.id, last.args.extra)


\* ---- translation requests (C30) -----------------------------------------------
\* the original subtitle is not among the subtitles the cache holds for the
\* media: none are held, or the list has no subtitle of that id
originalNotFound(cache, originalId, mediaId) ==
  LET cachedSubtitles == cacheGet(cache, mediaKey(mediaId))
  IN \/ cachedSubtitles = Undefined
     \/ cachedSubtitles.kind = "list" /\ findById(cachedSubtitles.items, originalId) = <<>>

\* the next request for the same (originalId, targetLang) is answered from the
\* cache, before any lookup of the media's subtitles, with the same subtitle
nextReturnsCached(cache, originalId, targetLang, subtitle) ==
  \A mediaId \in MediaIds :
    \A env \in {"ok", "contentFails", "dummyFails", "translateRejects", "writeFails"} :
      handleTranslationRequest(cache, originalId, mediaId, targetLang, env)
        = Outcome(cache, "resolved", "cache", subtitle)

\* C30: handleTranslationRequest never rejects and resolves to a subtitle
\* whose id is translate_<originalId>_<targetLang> and whose lang is
\* targetLang; the fallback it answers with when the original subtitle was
\* not found is cached, and the next request for the same pair returns it
\* from the cache.
C30_AlwaysASubtitleAndNotFoundIsCached ==
  last # NoInput /\ last.op = "handleTranslationRequest" =>
    /\ last.status = "resolved"
    /\ last.value.kind = "subtitle"
    /\ last.value.id = translateId(last.args.originalId, last.args.targetLang)
    /\ last.value.lang = last.args.targetLang
    /\ /\ last.via # "cache"
       /\ originalNotFound(subtitleCache, last.args.originalId, last.args.mediaId)
       => /\ cacheGet(subtitleCache,
                      translationKey(last.args.originalId, last.args.targetLang))
               = last.value
          /\ nextReturnsCached(subtitleCache, last.args.originalId,
                               last.args.targetLang, last.value)

====
